---------------------------- MODULE Spec2Model ----------------------------
(***************************************************************************)
(* The CRUD service of main.go: five echo handlers over the SQLite table   *)
(* users(id INTEGER PRIMARY KEY AUTOINCREMENT, name, age).                 *)
(*                                                                         *)
(* A form value or path parameter that the code hands to strconv.Atoi is   *)
(* a tuple of one-character strings, so that Atoi can be modelled by what  *)
(* it does to the characters.  A name is a TLA+ string: the code only      *)
(* stores it and takes its len(), which is the byte length (the names of   *)
(* the model are ASCII, one byte per character).                           *)
(***************************************************************************)
EXTENDS Integers, Sequences, FiniteSets, TLC

VARIABLES
    users,      \* the users table: id -> [name, age]
    seq,        \* sqlite_sequence of the table: the largest id ever assigned
    req,        \* Spec: the request served last
    resp,       \* Spec: the response to it
    issued,     \* Spec: the ids returned by the successful Creates, in order
    inflight,   \* SpecConc: request slot -> the request's goroutine
    gone        \* SpecConc: id -> the slot whose statement deleted the row

vars == <<users, seq, req, resp, issued, inflight, gone>>

-----------------------------------------------------------------------------
(* Bounds of the model *)

MaxCreates == 2
MaxInflight == 4

(* Program constants *)

MaxNameLen == 100
MinAge == 0
MaxAge == 200
MaxInt == 2147483647
MaxUintDiv10 == 429496729

StatusOK == 200
StatusNoContent == 204
StatusBadRequest == 400
StatusNotFound == 404
StatusInternalServerError == 500

-----------------------------------------------------------------------------
(* strconv.Atoi, for a 32-bit int (GOARCH=386, arm); a 64-bit int changes   *)
(* MaxInt and MaxUintDiv10 only (2^63 ends in 8 and 2^64 - 1 in 5, as 2^31  *)
(* and 2^32 - 1 do).  Result: the value and the kind of error.              *)

DigitOf ==
    "0" :> 0 @@ "1" :> 1 @@ "2" :> 2 @@ "3" :> 3 @@ "4" :> 4 @@
    "5" :> 5 @@ "6" :> 6 @@ "7" :> 7 @@ "8" :> 8 @@ "9" :> 9

DigitVal(c) == DigitOf[c]

MinInt == -MaxInt - 1

(* ParseUint's loop over the digits.  The number read so far is 10*q + r;   *)
(* it is kept in two parts because it may reach 2^32 - 1.  "range" is       *)
(* returned at the digit that takes it past 2^32 - 1, before any later      *)
(* character is looked at.                                                  *)
RECURSIVE ParseDigits(_, _, _, _)
ParseDigits(s, i, q, r) ==
    IF i > Len(s) THEN [err |-> "nil", q |-> q, r |-> r]
    ELSE IF s[i] \notin DOMAIN DigitOf THEN [err |-> "syntax", q |-> 0, r |-> 0]
    ELSE IF q > (MaxUintDiv10 - r) \div 10
            \/ (10 * q + r = MaxUintDiv10 /\ DigitVal(s[i]) > 5)
         THEN [err |-> "range", q |-> 0, r |-> 0]
    ELSE ParseDigits(s, i + 1, 10 * q + r, DigitVal(s[i]))

(* ParseInt after ParseUint: the sign and the clamp to the int's range.  u  *)
(* is what ParseDigits returned: the magnitude 10 * u.q + u.r or an error.   *)
ParseInt(neg, u) ==
    LET half == MaxInt \div 10
        \* the magnitude against 2^31 = 10 * half + 8
        ge == u.q > half \/ (u.q = half /\ u.r >= 8)
        gt == u.q > half \/ (u.q = half /\ u.r > 8)
    IN  IF u.err = "syntax" THEN [val |-> 0, err |-> "syntax"]
        ELSE IF u.err = "range"
             THEN [val |-> IF neg THEN MinInt ELSE MaxInt, err |-> "range"]
        ELSE IF ~neg /\ ge THEN [val |-> MaxInt, err |-> "range"]
        ELSE IF neg /\ gt THEN [val |-> MinInt, err |-> "range"]
        ELSE IF neg /\ ge THEN [val |-> MinInt, err |-> "nil"]
        ELSE [val |-> IF neg THEN -(10 * u.q + u.r) ELSE 10 * u.q + u.r,
              err |-> "nil"]

StrconvAtoi(s) ==
    IF Len(s) > 0 /\ s[1] \in {"+", "-"}
    THEN IF Len(s) = 1 THEN [val |-> 0, err |-> "syntax"]
         ELSE ParseInt(s[1] = "-", ParseDigits(Tail(s), 1, 0, 0))
    ELSE IF Len(s) = 0 THEN [val |-> 0, err |-> "syntax"]
         ELSE ParseInt(FALSE, ParseDigits(s, 1, 0, 0))

-----------------------------------------------------------------------------
(* The inputs of the model *)

Name100 == "nnnnnnnnnnnnnnnnnnnnnnnnnnnnnnnnnnnnnnnnnnnnnnnnnnnnnnnnnnnnnnnnnnnnnnnnnnnnnnnnnnnnnnnnnnnnnnnnnnnn"

Name101 == "nnnnnnnnnnnnnnnnnnnnnnnnnnnnnnnnnnnnnnnnnnnnnnnnnnnnnnnnnnnnnnnnnnnnnnnnnnnnnnnnnnnnnnnnnnnnnnnnnnnnn"

Names == {"", "A", Name100, Name101}

BigNumber == <<"2", "1", "4", "7", "4", "8", "3", "6", "4", "8">>

Ages == {<<"-", "1">>, <<"0">>, <<"1", "9", "9">>, <<"2", "0", "0">>, <<"x">>, BigNumber}

(* The forms posted to Create: a valid one, one without an age, one with an *)
(* empty name and an age that is no number, one with an over-long name and *)
(* an age beyond the int range.                                            *)
CreateForms ==
    { <<"A", <<"0">>>>, <<"A", <<>>>>, <<"", <<"x">>>>, <<Name101, BigNumber>> }

IdParams == {<<"1">>, <<"2">>, <<"x">>}

(* Atoi, evaluated once for each numeral the requests of the model carry *)
Numerals == Ages \cup IdParams \cup {f[2] : f \in CreateForms}

AtoiTable == [s \in Numerals |-> StrconvAtoi(s)]

Atoi(s) == AtoiTable[s]

-----------------------------------------------------------------------------
(* Responses *)

NoBody == [kind |-> "none", items |-> <<>>]

HTTPError(status, msg) == [status |-> status, msg |-> msg, body |-> NoBody]

User(id, name, age) == [id |-> id, name |-> name, age |-> age]

JSONObject(status, u) ==
    [status |-> status, msg |-> "", body |-> [kind |-> "object", items |-> <<u>>]]

JSONArray(status, slice) == [status |-> status, msg |-> "", body |-> slice]

NoContent(status) == [status |-> status, msg |-> "", body |-> NoBody]

(* validateUser: "" stands for the nil error *)
NameTooLong(name) == Len(name) > MaxNameLen

(* Mutant: the upper bound of the age taken as inclusive *)
AgeOutOfRangeInclusive(age) == age < MinAge \/ age > MaxAge

AgeOutOfRange(age) == age < MinAge \/ age >= MaxAge

validateUser(name, age) ==
    IF name = "" THEN "name is empty"
    ELSE IF NameTooLong(name) THEN "name is too long"
    ELSE IF AgeOutOfRange(age) THEN "age must be between 0 and 200"
    ELSE ""

-----------------------------------------------------------------------------
(* The store: database/sql over SQLite, one statement at a time.  A statement *)
(* is atomic: it takes effect whole or, when it fails, not at all.  fault is  *)
(* the failure the store meets, "none" when it meets none.                    *)

Max(a, b) == IF a >= b THEN a ELSE b

MaxRowid(u) == IF DOMAIN u = {} THEN 0 ELSE CHOOSE m \in DOMAIN u : \A i \in DOMAIN u : i <= m

(* Mutant: the rowid of a table declared without AUTOINCREMENT *)
NextRowidOfMax(u, s) == MaxRowid(u) + 1

(* The rowid an INSERT that names no id gets under AUTOINCREMENT: one more  *)
(* than the largest rowid the table has ever held.                         *)
NextRowid(u, s) == Max(s, MaxRowid(u)) + 1

(* The rows of a full scan, in rowid order. *)
RECURSIVE ScanRows(_, _)
ScanRows(u, ids) ==
    IF ids = {} THEN <<>>
    ELSE LET i == CHOOSE m \in ids : \A j \in ids : m <= j
         IN  <<User(i, u[i].name, u[i].age)>> \o ScanRows(u, ids \ {i})

Result(u, s, err, n, id, rows) ==
    [users |-> u, seq |-> s, err |-> err, rowsAffected |-> n,
     lastInsertId |-> id, rows |-> rows]

StoreError(u, s) == Result(u, s, "store error", 0, 0, <<>>)

(* INSERT INTO users(name, age) VALUES(?, ?) *)
ExecInsert(st, u, s) ==
    LET id == NextRowid(u, s)
    IN  Result(u @@ (id :> [name |-> st.name, age |-> st.age]), id, "", 1, id, <<>>)

(* Mutant: the UPDATE without its WHERE clause *)
ExecUpdateAll(st, u, s) ==
    Result([i \in DOMAIN u |-> [name |-> st.name, age |-> st.age]], s, "",
           Cardinality(DOMAIN u), 0, <<>>)

(* UPDATE users SET name = ?, age = ? WHERE id = ? *)
ExecUpdate(st, u, s) ==
    IF st.id \in DOMAIN u
    THEN Result([u EXCEPT ![st.id] = [name |-> st.name, age |-> st.age]], s, "", 1, 0, <<>>)
    ELSE Result(u, s, "", 0, 0, <<>>)

(* DELETE FROM users WHERE id = ? *)
ExecDelete(st, u, s) ==
    IF st.id \in DOMAIN u
    THEN Result([i \in DOMAIN u \ {st.id} |-> u[i]], s, "", 1, 0, <<>>)
    ELSE Result(u, s, "", 0, 0, <<>>)

(* SELECT id, name, age FROM users *)
QueryAll(st, u, s) == Result(u, s, "", 0, 0, ScanRows(u, DOMAIN u))

(* SELECT id, name, age FROM users WHERE id = ? *)
QueryOne(st, u, s) == Result(u, s, "", 0, 0, ScanRows(u, DOMAIN u \cap {st.id}))

ExecStmt(st, u, s) ==
    CASE st.kind = "insert" -> ExecInsert(st, u, s)
      [] st.kind = "update" -> ExecUpdate(st, u, s)
      [] st.kind = "delete" -> ExecDelete(st, u, s)
      [] st.kind = "selectAll" -> QueryAll(st, u, s)
      [] st.kind = "selectOne" -> QueryOne(st, u, s)

(* Mutant: a statement that fails has taken effect all the same *)
ExecFailsAfterEffect(st, fault, u, s) ==
    IF fault = "exec"
    THEN Result(ExecStmt(st, u, s).users, ExecStmt(st, u, s).seq, "store error", 0, 0, <<>>)
    ELSE ExecStmt(st, u, s)

Exec(st, fault, u, s) ==
    IF fault = "exec" THEN StoreError(u, s) ELSE ExecStmt(st, u, s)

Stmt(kind, id, name, age) == [kind |-> kind, id |-> id, name |-> name, age |-> age]

-----------------------------------------------------------------------------
(* The handlers.  Each is cut at its one statement: XxxPrepare is the code   *)
(* before the statement and returns either an early response or the         *)
(* statement; XxxFinish is the code after it and builds the response from   *)
(* the statement's result.                                                  *)

Early(r) == [early |-> TRUE, resp |-> r, stmt |-> Stmt("none", 0, "", 0)]

Run(st) == [early |-> FALSE, resp |-> NoContent(0), stmt |-> st]

Request(op, id, name, age, fault, at) ==
    [op |-> op, id |-> id, name |-> name, age |-> age, fault |-> fault, at |-> at]

(* DELETE /users/:id *)
DeletePrepare(r) ==
    LET id == Atoi(r.id)
    IN  IF id.err # "nil" THEN Early(HTTPError(StatusInternalServerError, id.err))
        ELSE Run(Stmt("delete", id.val, "", 0))

(* Mutant: the count of affected rows is not looked at *)
DeleteFinishAlways204(r, res) ==
    IF res.err # "" THEN HTTPError(StatusInternalServerError, res.err)
    ELSE NoContent(StatusNoContent)

DeleteFinish(r, res) ==
    IF res.err # "" THEN HTTPError(StatusInternalServerError, res.err)
    ELSE IF res.rowsAffected = 0 THEN HTTPError(StatusNotFound, "Not Found")
    ELSE NoContent(StatusNoContent)

(* Mutant: an age that Atoi rejects is taken as 0 *)
CreateAgeZeroOnError(form) == IF Atoi(form).err # "nil" THEN 0 ELSE Atoi(form).val

(* POST /users: the error of Atoi is dropped, its value is used *)
CreateAge(form) == Atoi(form).val

CreatePrepare(r) == Run(Stmt("insert", 0, r.name, CreateAge(r.age)))

CreateFinish(r, res) ==
    IF res.err # "" THEN HTTPError(StatusInternalServerError, res.err)
    ELSE JSONObject(StatusOK, User(res.lastInsertId, r.name, CreateAge(r.age)))

(* Mutant: validation ahead of the check of the age's parse error *)
UpdatePrepareValidateFirst(r) ==
    LET id == Atoi(r.id)
        age == Atoi(r.age)
    IN  IF id.err # "nil" THEN Early(HTTPError(StatusInternalServerError, id.err))
        ELSE IF validateUser(r.name, age.val) # ""
             THEN Early(HTTPError(StatusBadRequest, validateUser(r.name, age.val)))
        ELSE IF age.err # "nil" THEN Early(HTTPError(StatusInternalServerError, age.err))
        ELSE Run(Stmt("update", id.val, r.name, age.val))

(* Mutant: zero affected rows are not told from one *)
UpdateFinishAlways200(r, res) ==
    IF res.err # "" THEN HTTPError(StatusInternalServerError, res.err)
    ELSE JSONObject(StatusOK, User(Atoi(r.id).val, r.name, Atoi(r.age).val))

(* PUT /users/:id *)
UpdatePrepare(r) ==
    LET id == Atoi(r.id)
        age == Atoi(r.age)
    IN  IF id.err # "nil" THEN Early(HTTPError(StatusInternalServerError, id.err))
        ELSE IF age.err # "nil" THEN Early(HTTPError(StatusInternalServerError, age.err))
        ELSE IF validateUser(r.name, age.val) # ""
             THEN Early(HTTPError(StatusBadRequest, validateUser(r.name, age.val)))
        ELSE Run(Stmt("update", id.val, r.name, age.val))

UpdateFinish(r, res) ==
    IF res.err # "" THEN HTTPError(StatusInternalServerError, res.err)
    ELSE IF res.rowsAffected = 0 THEN HTTPError(StatusNotFound, "Not Found")
    ELSE JSONObject(StatusOK, User(Atoi(r.id).val, r.name, Atoi(r.age).val))

(* GET /users *)
ReadAllPrepare(r) == Run(Stmt("selectAll", 0, "", 0))

EmptySlice == [kind |-> "array", items |-> <<>>]

AppendUser(slice, u) == [kind |-> "array", items |-> Append(slice.items, u)]

(* The loop `for rows.Next() { Scan; append }`.  rows.Next() returns false    *)
(* at the end of the rows and also when the store fails while stepping to   *)
(* the next row (fault "next", at the row numbered at + 1); the handler    *)
(* never asks rows.Err() which of the two it was.  Result: the slice, and   *)
(* whether a Scan failed (fault "scan").                                    *)
RECURSIVE ReadAllLoop(_, _, _, _)
ReadAllLoop(rows, i, r, slice) ==
    IF i > Len(rows) \/ (r.fault = "next" /\ i = r.at + 1)
    THEN [err |-> "", slice |-> slice]
    ELSE IF r.fault = "scan" /\ i = r.at + 1
    THEN [err |-> "scan error", slice |-> slice]
    ELSE ReadAllLoop(rows, i + 1, r, AppendUser(slice, rows[i]))

ReadAllFinish(r, res) ==
    IF res.err # "" THEN HTTPError(StatusInternalServerError, res.err)
    ELSE LET l == ReadAllLoop(res.rows, 1, r, EmptySlice)
         IN  IF l.err # "" THEN HTTPError(StatusInternalServerError, l.err)
             ELSE JSONArray(StatusOK, l.slice)

(* GET /users/:id: QueryRow hands every error, "no rows" too, to Scan *)
ReadOnePrepare(r) ==
    LET id == Atoi(r.id)
    IN  IF id.err # "nil" THEN Early(HTTPError(StatusInternalServerError, id.err))
        ELSE Run(Stmt("selectOne", id.val, "", 0))

ReadOneFinish(r, res) ==
    IF res.err # "" THEN HTTPError(StatusInternalServerError, res.err)
    ELSE IF Len(res.rows) = 0
         THEN HTTPError(StatusInternalServerError, "sql: no rows in result set")
    ELSE JSONObject(StatusOK, res.rows[1])

Prepare(r) ==
    CASE r.op = "Delete" -> DeletePrepare(r)
      [] r.op = "Create" -> CreatePrepare(r)
      [] r.op = "Update" -> UpdatePrepare(r)
      [] r.op = "ReadAll" -> ReadAllPrepare(r)
      [] r.op = "ReadOne" -> ReadOnePrepare(r)

Finish(r, res) ==
    CASE r.op = "Delete" -> DeleteFinish(r, res)
      [] r.op = "Create" -> CreateFinish(r, res)
      [] r.op = "Update" -> UpdateFinish(r, res)
      [] r.op = "ReadAll" -> ReadAllFinish(r, res)
      [] r.op = "ReadOne" -> ReadOneFinish(r, res)

-----------------------------------------------------------------------------
(* The initial state: an empty table *)

NoRequest == Request("none", <<>>, "", <<>>, "none", 0)

(* What a handler keeps of a statement's result *)
Outcome(res) ==
    [err |-> res.err, rowsAffected |-> res.rowsAffected,
     lastInsertId |-> res.lastInsertId, rows |-> res.rows]

(* A request being served by its goroutine: pc is "free" before it arrives, *)
(* "ready" before its statement, "executed" after it, "done" once answered. *)
(* saw records what the store held, when the statement ran, of the row it   *)
(* names: "row" (present), "gone" (deleted before) or "never".              *)
Slots == 1..MaxInflight

Slot(pc, r, st, res, rsp, saw) ==
    [pc |-> pc, req |-> r, stmt |-> st, res |-> res, resp |-> rsp, saw |-> saw]

NoOutcome == Outcome(StoreError(<<>>, 0))

FreeSlot == [pc |-> "free"]

Init ==
    /\ users = <<>>
    /\ seq = 0
    /\ req = NoRequest
    /\ resp = NoContent(0)
    /\ issued = <<>>
    /\ inflight = [k \in Slots |-> FreeSlot]
    /\ gone = <<>>

-----------------------------------------------------------------------------
(* Spec: the requests are served one at a time, each handler as one step *)

Serve(r) ==
    LET p == Prepare(r)
        res == Exec(p.stmt, r.fault, users, seq)
    IN  /\ req' = r
        /\ IF p.early
           THEN /\ resp' = p.resp
                /\ UNCHANGED <<users, seq>>
           ELSE /\ resp' = Finish(r, res)
                /\ users' = res.users
                /\ seq' = res.seq
        /\ issued' = IF r.op = "Create" /\ resp'.status = StatusOK
                     THEN Append(issued, resp'.body.items[1].id)
                     ELSE issued
        /\ UNCHANGED <<inflight, gone>>

(* The store can fail only a request that reaches its statement *)
Faults(r) == IF Prepare(r).early THEN {"none"} ELSE {"none", "exec"}

Create ==
    \E form \in CreateForms, fault \in {"none", "exec"} :
        /\ seq < MaxCreates
        /\ Serve(Request("Create", <<>>, form[1], form[2], fault, 0))

ReadAll ==
    \E fault \in {"none", "exec", "scan", "next"}, at \in 0..Cardinality(DOMAIN users) :
        /\ IF fault \in {"scan", "next"} THEN at < Cardinality(DOMAIN users) ELSE at = 0
        /\ Serve(Request("ReadAll", <<>>, "", <<>>, fault, at))

ReadOne ==
    \E id \in IdParams, fault \in {"none", "exec"} :
        /\ fault \in Faults(Request("ReadOne", id, "", <<>>, "none", 0))
        /\ Serve(Request("ReadOne", id, "", <<>>, fault, 0))

Update ==
    \E id \in IdParams, name \in Names, age \in Ages, fault \in {"none", "exec"} :
        /\ fault \in Faults(Request("Update", id, name, age, "none", 0))
        /\ Serve(Request("Update", id, name, age, fault, 0))

Delete ==
    \E id \in IdParams, fault \in {"none", "exec"} :
        /\ fault \in Faults(Request("Delete", id, "", <<>>, "none", 0))
        /\ Serve(Request("Delete", id, "", <<>>, fault, 0))

Next == Create \/ ReadAll \/ ReadOne \/ Update \/ Delete

Spec == Init /\ [][Next]_vars

-----------------------------------------------------------------------------
(* SpecConc: the requests are served concurrently, one goroutine each.  A    *)
(* handler shares nothing with the others but the store, so its steps are   *)
(* the code before its statement, the statement, and the code after it.     *)
(* Slot k holds the k-th request to arrive.  The store fails no statement.  *)

ConcRequests ==
    { Request("Create", <<>>, "A", <<"0">>, "none", 0),
      Request("Delete", <<"1">>, "", <<>>, "none", 0),
      Request("Update", <<"1">>, Name100, <<"1", "9", "9">>, "none", 0),
      Request("Update", <<"1">>, "A", <<"x">>, "none", 0) }

Arrive(k) ==
    /\ inflight[k].pc = "free"
    /\ \A j \in 1..(k - 1) : inflight[j].pc # "free"
    /\ \E r \in ConcRequests :
          LET p == Prepare(r)
          IN  inflight' = [inflight EXCEPT ![k] =
                  IF p.early
                  THEN Slot("done", r, p.stmt, NoOutcome, p.resp, "")
                  ELSE Slot("ready", r, p.stmt, NoOutcome, NoContent(0), "")]
    /\ UNCHANGED <<users, seq, req, resp, issued, gone>>

Execute(k) ==
    LET g == inflight[k]
        res == Exec(g.stmt, g.req.fault, users, seq)
        removed == DOMAIN users \ DOMAIN res.users
        saw == IF g.stmt.id \in DOMAIN users THEN "row"
               ELSE IF g.stmt.id \in DOMAIN gone THEN "gone" ELSE "never"
    IN  /\ g.pc = "ready"
        /\ users' = res.users
        /\ seq' = res.seq
        /\ gone' = gone @@ [i \in removed |-> k]
        /\ inflight' = [inflight EXCEPT ![k] =
               Slot("executed", g.req, g.stmt, Outcome(res), g.resp, saw)]
        /\ UNCHANGED <<req, resp, issued>>

Answer(k) ==
    LET g == inflight[k]
    IN  /\ g.pc = "executed"
        /\ inflight' = [inflight EXCEPT ![k] =
               Slot("done", g.req, g.stmt, g.res, Finish(g.req, g.res), g.saw)]
        /\ UNCHANGED <<users, seq, req, resp, issued, gone>>

NextConc == \E k \in Slots : Arrive(k) \/ Execute(k) \/ Answer(k)

SpecConc == Init /\ [][NextConc]_vars

-----------------------------------------------------------------------------
(* The claims.  Under Spec, req and resp are the request served last and its *)
(* response; in a step, req' and resp' are the request the step serves and  *)
(* its response, users the table before it and users' the table after it.   *)

ValidInput(name, age) ==
    /\ Len(name) >= 1 /\ Len(name) <= 100
    /\ age >= 0 /\ age < 200

(* The ids that were assigned and whose users were deleted *)
Deleted == (1..seq) \ DOMAIN users

(* C1: an Update with a parsable id and a parsable age passes validation    *)
(* exactly when the name has 1 to 100 bytes and 0 <= age < 200; otherwise   *)
(* it is answered 400 with the message of the first rule violated, in the   *)
(* order: name empty, name too long, age out of range.                      *)
C1_ValidationRule ==
    (req.op = "Update" /\ Atoi(req.id).err = "nil" /\ Atoi(req.age).err = "nil") =>
        LET n == Len(req.name)
            a == Atoi(req.age).val
        IN  IF ValidInput(req.name, a)
            THEN resp.status # 400
            ELSE /\ resp.status = 400
                 /\ resp.msg = IF n = 0 THEN "name is empty"
                               ELSE IF n > 100 THEN "name is too long"
                               ELSE "age must be between 0 and 200"

(* C1's case: an over-long name with an age out of range, answered with the *)
(* message of the name alone.                                               *)
C1_Witness ==
    /\ req.op = "Update"
    /\ req.name = Name101
    /\ Atoi(req.age) = [val |-> 200, err |-> "nil"]
    /\ resp.status = 400
    /\ resp.msg = "name is too long"

(* C2: every persisted user has a name of 1 to 100 bytes and an age in      *)
(* 0..199.                                                                  *)
C2_PersistedUsersValid ==
    \A i \in DOMAIN users : ValidInput(users[i].name, users[i].age)

(* C3, as claimed: a Create that the store does not fail is answered 200,   *)
(* inserts the name as given and the age as parsed, 0 when Atoi rejects it, *)
(* and answers with the new id and the name and age inserted.               *)
CreatedAs(age) ==
    /\ resp.status = 200
    /\ resp.body.kind = "object"
    /\ LET u == resp.body.items[1]
       IN  /\ u.id = seq
           /\ u.name = req.name
           /\ u.age = age
           /\ u.id \in DOMAIN users
           /\ users[u.id] = [name |-> req.name, age |-> age]

C4_IdsIncrease ==
    [][ /\ (req'.op = "Create" /\ resp'.status = 200) =>
              LET id == resp'.body.items[1].id
              IN  /\ \A j \in 1..Len(issued) : issued[j] < id
                  /\ id \notin DOMAIN users
                  /\ DOMAIN users' = DOMAIN users \cup {id}
        /\ (req'.op = "Update") => DOMAIN users' = DOMAIN users
      ]_vars

(* C4's case: a Create served after the first user was deleted *)
C4_Witness ==
    /\ req.op = "Create"
    /\ resp.status = 200
    /\ Len(issued) = 2
    /\ 1 \in Deleted

(* C5: when the store does not fail, a Delete of an integer id that no user *)
(* has is answered 404 and leaves the table as it was; a Delete of an       *)
(* id that a user has is answered 204 and removes that user and no other;   *)
(* a deleted id stays deleted, and a ReadOne of it is answered 500.         *)
C5_Delete ==
    [][ LET id == Atoi(req'.id)
        IN  /\ (req'.op = "Delete" /\ id.err = "nil" /\ req'.fault = "none") =>
                  IF id.val \in DOMAIN users
                  THEN /\ resp'.status = 204
                       /\ resp'.body.kind = "none"
                       /\ users' = [i \in DOMAIN users \ {id.val} |-> users[i]]
                  ELSE /\ resp'.status = 404
                       /\ users' = users
            /\ (req'.op = "ReadOne" /\ id.err = "nil" /\ req'.fault = "none"
                    /\ id.val \in Deleted) => resp'.status = 500
            /\ Deleted \subseteq Deleted'
      ]_vars

(* C5's case: a second Delete of a deleted id, while another user remains *)
C5_Witness ==
    /\ req.op = "Delete"
    /\ req.fault = "none"
    /\ Atoi(req.id).val \in Deleted
    /\ resp.status = 404
    /\ DOMAIN users # {}

(* C6: when the store does not fail, an Update of the id of a user with a   *)
(* valid name and age is answered 200 with that id and the submitted name   *)
(* and age, sets the name and age of that user and leaves every other user  *)
(* as it was; a ReadOne of the id served next returns the same body.        *)
C6_Update ==
    [][ LET id == Atoi(req'.id)
            age == Atoi(req'.age)
        IN  /\ (req'.op = "Update" /\ req'.fault = "none"
                    /\ id.err = "nil" /\ age.err = "nil"
                    /\ id.val \in DOMAIN users
                    /\ ValidInput(req'.name, age.val)) =>
                  /\ resp'.status = 200
                  /\ resp'.body = [kind |-> "object",
                                   items |-> <<[id |-> id.val, name |-> req'.name,
                                                age |-> age.val]>>]
                  /\ users' = [i \in DOMAIN users |->
                                  IF i = id.val
                                  THEN [name |-> req'.name, age |-> age.val]
                                  ELSE users[i]]
            /\ (req.op = "Update" /\ resp.status = 200
                    /\ req'.op = "ReadOne" /\ req'.fault = "none"
                    /\ id.err = "nil" /\ id.val = Atoi(req.id).val) =>
                  /\ resp'.status = 200
                  /\ resp'.body = resp.body
      ]_vars

(* C6's case: an Update answered 200 that changed its user beside another *)
C6_Witness ==
    /\ req.op = "Update"
    /\ resp.status = 200
    /\ Cardinality(DOMAIN users) = 2
    /\ \E i \in DOMAIN users : users[i].name # req.name

(* C7: a ReadAll answered 200 carries an array with exactly the persisted   *)
(* users, none missing and none twice.                                      *)
C7_ReadAllExact ==
    (req.op = "ReadAll" /\ resp.status = 200) =>
        /\ resp.body.kind = "array"
        /\ Len(resp.body.items) = Cardinality(DOMAIN users)
        /\ \A i \in DOMAIN users : \E j \in 1..Len(resp.body.items) :
              resp.body.items[j] = [id |-> i, name |-> users[i].name, age |-> users[i].age]

(* C8: when the store does not fail, the status of an Update is 500 for an  *)
(* id that is no integer, else 500 for an age that is no integer, else 400  *)
(* for an invalid name or age, else 404 when no user has the id, else 200;  *)
(* and a request answered 400, or 500 for its id or age, leaves the table   *)
(* as it was.                                                               *)
C8_UpdatePrecedence ==
    [][ LET id == Atoi(req'.id)
            age == Atoi(req'.age)
        IN  (req'.op = "Update" /\ req'.fault = "none") =>
              /\ resp'.status =
                    IF id.err # "nil" THEN 500
                    ELSE IF age.err # "nil" THEN 500
                    ELSE IF ~ValidInput(req'.name, age.val) THEN 400
                    ELSE IF id.val \notin DOMAIN users THEN 404
                    ELSE 200
              /\ (resp'.status = 400 \/ id.err # "nil" \/ age.err # "nil") =>
                    users' = users
      ]_vars

(* C8's case: an empty name with an age that is no integer, for the id of a *)
(* user: answered 500, not 400.                                             *)
C8_Witness ==
    /\ req.op = "Update"
    /\ req.fault = "none"
    /\ req.name = ""
    /\ Atoi(req.id).err = "nil"
    /\ Atoi(req.id).val \in DOMAIN users
    /\ Atoi(req.age).err # "nil"
    /\ resp.status = 500

(* C9: only a Create answered 200, an Update answered 200 and a Delete      *)
(* answered 204 change the table: the Create adds one row, the Delete       *)
(* removes one row, the Update rewrites one row, and all other rows stay as *)
(* they were; every other request leaves the table as it was.               *)
C9_Frame ==
    [][ LET created == req'.op = "Create" /\ resp'.status = 200
            updated == req'.op = "Update" /\ resp'.status = 200
            deleted == req'.op = "Delete" /\ resp'.status = 204
        IN  /\ ~(created \/ updated \/ deleted) => users' = users
            /\ created =>
                  \E i \in DOMAIN users' \ DOMAIN users :
                      /\ DOMAIN users' = DOMAIN users \cup {i}
                      /\ \A j \in DOMAIN users : users'[j] = users[j]
            /\ deleted =>
                  \E i \in DOMAIN users \ DOMAIN users' :
                      /\ DOMAIN users' = DOMAIN users \ {i}
                      /\ \A j \in DOMAIN users' : users'[j] = users[j]
            /\ updated =>
                  /\ DOMAIN users' = DOMAIN users
                  /\ \E i \in DOMAIN users :
                        \A j \in DOMAIN users \ {i} : users'[j] = users[j]
      ]_vars

(* C9's case: a Create that the store failed, with a user in the table *)
C9_Witness ==
    /\ req.op = "Create"
    /\ req.fault = "exec"
    /\ resp.status = 500
    /\ DOMAIN users # {}

(* C10: under any interleaving, a Delete is answered 204 exactly when its   *)
(* statement found the row, and 404 otherwise; at most one Delete of an id  *)
(* is answered 204, and it is the one whose statement deleted the row; an   *)
(* Update is answered 200 exactly when its statement found the row, and 404 *)
(* when it ran after the delete.                                            *)
Done(k, kind) == inflight[k].pc = "done" /\ inflight[k].stmt.kind = kind

C10_Races ==
    /\ \A k \in Slots : Done(k, "delete") =>
          /\ inflight[k].resp.status = IF inflight[k].saw = "row" THEN 204 ELSE 404
          /\ inflight[k].resp.status = 204 <=>
                (inflight[k].stmt.id \in DOMAIN gone /\ gone[inflight[k].stmt.id] = k)
    /\ \A k, j \in Slots :
          (/\ Done(k, "delete") /\ Done(j, "delete")
           /\ inflight[k].stmt.id = inflight[j].stmt.id
           /\ inflight[k].resp.status = 204 /\ inflight[j].resp.status = 204) => k = j
    /\ \A i \in DOMAIN gone : inflight[gone[i]].pc = "done" =>
          inflight[gone[i]].resp.status = 204
    /\ \A k \in Slots : Done(k, "update") =>
          inflight[k].resp.status = IF inflight[k].saw = "row" THEN 200 ELSE 404

(* C10's case: two Deletes of one id and an Update of it that arrived after *)
(* the Delete that won and whose statement ran before it.                   *)
C10_Witness ==
    \E a, b, c \in Slots :
        /\ Done(a, "delete") /\ inflight[a].resp.status = 204
        /\ Done(b, "delete") /\ inflight[b].resp.status = 404
        /\ inflight[b].saw = "gone"
        /\ Done(c, "update") /\ inflight[c].resp.status = 200
        /\ c > a
        /\ inflight[a].stmt.id = inflight[c].stmt.id

=============================================================================
